---- MODULE Spec2Model ----
(***************************************************************************)
(* Cookie-AutoDelete, src/background.ts: the background page's start-up,   *)
(* its store subscribers (onSettingsChange, saveToStorage) and the         *)
(* runtime.onStartup / runtime.onInstalled handlers.                       *)
(*                                                                         *)
(* JavaScript runs each handler to completion up to its next `await`; one  *)
(* action of this module is one such run: the whole synchronous stretch of *)
(* a handler, every nested store.dispatch and every subscriber call it     *)
(* makes included.  What a stretch changes is computed on a record M (the  *)
(* "machine": the module-level variables of background.ts, the redux store *)
(* and the browser effects counted here) by the recursive operators below, *)
(* and committed to the variables by Commit.                               *)
(***************************************************************************)
EXTENDS Naturals, Sequences, FiniteSets, Bags, TLC

\* ------------------------------------------------------------------ bounds

\* UPDATE_SETTING actions the settings page dispatches in one run, and in a
\* run made of settings changes alone.
MaxUserChanges == 1
MaxRaceChanges == 2

\* ------------------------------------------------ site data and settings

\* SITEDATATYPES of services/Libs, in its order.
SITEDATATYPES == <<"Cache", "IndexedDB", "LocalStorage", "PluginData", "ServiceWorkers">>

SiteData == {SITEDATATYPES[i] : i \in 1..Len(SITEDATATYPES)}

\* siteDataToBrowser(siteData): the browsingData key of a site data type.
siteDataToBrowser(siteData) ==
  CASE siteData = "Cache" -> "cache"
    [] siteData = "IndexedDB" -> "indexedDB"
    [] siteData = "LocalStorage" -> "localStorage"
    [] siteData = "PluginData" -> "pluginData"
    [] siteData = "ServiceWorkers" -> "serviceWorkers"

\* Line 86: `${siteDataToBrowser(siteData)}Cleanup`.
CleanupSetting(siteData) == siteDataToBrowser(siteData) \o "Cleanup"

\* The settings every stored state holds, whatever version wrote it.
BaseNames ==
  <<"activeMode", "contextMenus", "contextualIdentities",
    "enableGreyListCleanup", "enableNewVersionPopup">>

\* The settings of the initial state, in the order validateSettings adds the
\* missing ones.  The deprecated localstorageCleanup is not among them: a
\* state holds it when an older version wrote it or line 135 has.
SettingOrder ==
  BaseNames \o
  <<"cacheCleanup", "indexedDBCleanup", "localStorageCleanup",
    "pluginDataCleanup", "serviceWorkersCleanup">>

\* A settings object: a function from the names present to their .value.
Has(settings, name) == name \in DOMAIN settings

\* getSetting(state, name): the value, undefined (falsy) when absent.
getSetting(st, name) == Has(st.settings, name) /\ st.settings[name]

InitialSettings == [n \in {SettingOrder[i] : i \in 1..Len(SettingOrder)} |->
                      n \in {"contextMenus", "enableGreyListCleanup"}]

NoSettings == [n \in {} |-> FALSE]

\* The reducers' initial state: what createStore({}) holds.
InitialState == [settings |-> InitialSettings, cache |-> {}, exprs |-> {}]

\* ------------------------------------------------------ JSON and storage

\* A value of browser.storage.local's key `state`: absent, the empty string,
\* a string that is no JSON, or the JSON text of a state.
Absent == [kind |-> "absent"]
EmptyString == [kind |-> "empty"]
Garbage == [kind |-> "garbage"]
JSONstringify(st) == [kind |-> "json", text |-> st]

\* What JSON.parse returns, or that it throws.
JSONparse(s) ==
  IF s.kind = "json" THEN [ok |-> TRUE, value |-> s.text]
  ELSE [ok |-> FALSE, value |-> InitialState]

\* The object {} (lines 161 and 164), and a parsed state.
EmptyObject == [obj |-> "empty"]
ParsedObject(st) == [obj |-> "state", value |-> st]

\* Lines 157-165 with a faulty catch: the parse error escapes onStartUp.
stateFromStorage_rethrow(s) ==
  IF s.kind \in {"absent", "empty"} THEN EmptyObject
  ELSE IF JSONparse(s).ok THEN ParsedObject(JSONparse(s).value)
  ELSE [obj |-> "thrown"]

\* Lines 156-165: stateFromStorage.
stateFromStorage(s) ==
  IF s.kind \in {"absent", "empty"} THEN EmptyObject
  ELSE IF JSONparse(s).ok THEN ParsedObject(JSONparse(s).value)
  ELSE EmptyObject

\* createStore(preloaded): a missing slice takes the reducer's initial state.
createStore(preloaded) ==
  IF preloaded.obj = "state" THEN preloaded.value ELSE InitialState

\* ------------------------------------------------------------ the store

\* A redux action; src tells the dispatch of line 348 ("migration") from the
\* others, for the properties only.
Act(type, name, value, src) ==
  [type |-> type, name |-> name, value |-> value, src |-> src]

UPDATE_SETTING(name, value) == Act("UPDATE_SETTING", name, value, "code")
ADD_CACHE(key) == Act("ADD_CACHE", key, TRUE, "code")

\* The root reducer on the part of the state modelled here: the settings, the
\* keys of the cache, and the expressions of the lists ("legacy": one with
\* cleanLocalStorage and no cleanSiteData).
Reduce(st, a) ==
  CASE a.type = "UPDATE_SETTING" ->
         [st EXCEPT !.settings = (a.name :> a.value) @@ st.settings]
    [] a.type = "ADD_CACHE" -> [st EXCEPT !.cache = @ \cup {a.name}]
    [] a.type = "UPDATE_EXPRESSION" ->
         [st EXCEPT !.exprs = (@ \ {"legacy"}) \cup {"legacyMigrated"}]
    [] a.type = "ADD_EXPRESSION" -> [st EXCEPT !.exprs = @ \cup {a.name}]
    [] OTHER -> st

\* A `<type>Cleanup` setting going from absent or false to true.
Activated(old, new, siteData) ==
  LET sd == CleanupSetting(siteData)
  IN  (~Has(old, sd) \/ ~old[sd]) /\ Has(new, sd) /\ new[sd]

\* --------------------------------------------------- the subscribers, run

\* A suspended invocation of onSettingsChange: its previousSettings, the
\* await it waits at, the index of the loop, and for the properties the
\* dispatch that called it and what it has seen and done about LocalStorage.
Invocation(prev, src, lsOn) ==
  [prev |-> prev, pc |-> "start", i |-> 0, src |-> src,
   lsOn |-> lsOn, issuedLS |-> FALSE]

Suspend(M, inv, pc, i) ==
  [M EXCEPT !.invs = @ (+) SetToBag({[inv EXCEPT !.pc = pc, !.i = i]})]

\* The promise of an async function rejects: the invocation ends there.
Reject(M) == [M EXCEPT !.rejected = @ + 1]

\* saveToStorage without its guard: every call schedules a timer.
saveToStorage_noGuard(M) ==
  [M EXCEPT !.delaySave = TRUE, !.timers = @ + 1]

\* Lines 44-54, the call: schedule the save unless one is scheduled.
saveToStorage(M) ==
  IF ~M.delaySave
  THEN [M EXCEPT !.delaySave = TRUE, !.timers = @ + 1]
  ELSE [M EXCEPT !.coalesced = TRUE]

\* Lines 56-63: browsingData.remove({since: 0}) for one site data type is
\* called at once; the caller then waits for it.
browsingDataCleanup(M, siteData) ==
  [M EXCEPT !.removes[siteData] = @ + 1]

\* Lines 93-97 without the migration check.
MigrationSkip_never(prev, siteData) == FALSE

\* Lines 93-97: the migration check.
MigrationSkip(prev, siteData) ==
  /\ siteData = "LocalStorage"
  /\ Has(prev, "localstorageCleanup")
  /\ prev["localstorageCleanup"]

RECURSIVE Dispatch(_, _), Notify(_, _, _), onSettingsChange(_, _),
          CleanupLoop(_, _, _), AfterLoop(_, _), AfterAlarm(_, _),
          AfterIcon(_, _), AfterMenu(_, _), validateFrom(_, _)

\* validateSettings(), the thunk, as far as this file relies on it: it
\* dispatches UPDATE_SETTING with the initial value for every setting the
\* state lacks.
validateFrom(M, k) ==
  IF k > Len(SettingOrder) THEN M
  ELSE LET n == SettingOrder[k]
       IN  IF Has(M.state.settings, n) THEN validateFrom(M, k + 1)
           ELSE validateFrom(
                  Dispatch(M, UPDATE_SETTING(n, InitialSettings[n])), k + 1)

validateSettings(M) == validateFrom(M, 1)

\* cacheCookieStoreIdNames(), the thunk: it queries the containers and
\* dispatches ADD_CACHE when the answer is there.
cacheCookieStoreIdNames(M) == [M EXCEPT !.cacheThunks = @ + 1]

\* Lines 130-144: the deprecated setting's mirror, then checkIfProtected.
AfterMenu(M, inv) ==
  LET prev == inv.prev
      cur == M.currentSettings
  IN  IF ~Has(prev, "localStorageCleanup") \/ ~Has(cur, "localStorageCleanup")
      THEN Reject(M)
      ELSE LET M1 == IF prev["localStorageCleanup"] # cur["localStorageCleanup"]
                     THEN Dispatch(M, UPDATE_SETTING("localstorageCleanup",
                                                     cur["localStorageCleanup"]))
                     ELSE M
           IN  Suspend(M1, inv, "protected", 0)

\* Lines 113-128: the icon is set; the context menus follow their setting.
AfterIcon(M, inv) ==
  LET prev == inv.prev
      cur == M.currentSettings
  IN  IF prev["contextMenus"] # cur["contextMenus"] /\ ~cur["contextMenus"]
      THEN Suspend(M, inv, "menu", 0)
      ELSE AfterMenu(M, inv)

\* Lines 111-112: the icon follows activeMode.
AfterAlarm(M, inv) ==
  IF inv.prev["activeMode"] # M.currentSettings["activeMode"]
  THEN Suspend(M, inv, "icon", 0)
  ELSE AfterIcon(M, inv)

\* Lines 107-109: the alarm is cleared when activeMode was switched off.
AfterLoop(M, inv) ==
  IF inv.prev["activeMode"] /\ ~M.currentSettings["activeMode"]
  THEN Suspend(M, inv, "alarm", 0)
  ELSE AfterAlarm(M, inv)

\* Lines 85-105, from the i-th site data type on.  currentSettings is the
\* module's variable, read again at every turn; previousSettings is the
\* invocation's own.
CleanupLoop(M, inv, i) ==
  IF i > Len(SITEDATATYPES) THEN AfterLoop(M, inv)
  ELSE
    LET siteData == SITEDATATYPES[i]
        sd == CleanupSetting(siteData)
        prev == inv.prev
        cur == M.currentSettings
    IN  IF Has(prev, sd) /\ prev[sd] THEN CleanupLoop(M, inv, i + 1)
        ELSE IF ~Has(cur, sd) THEN Reject(M)
        ELSE IF ~cur[sd] THEN CleanupLoop(M, inv, i + 1)
        ELSE IF MigrationSkip(prev, siteData) THEN CleanupLoop(M, inv, i + 1)
        ELSE Suspend(browsingDataCleanup(M, siteData),
                     [inv EXCEPT !.issuedLS = @ \/ siteData = "LocalStorage"],
                     "cleanup", i)

\* Lines 73-82, then the loop: one call of the subscriber, up to its first
\* await.
onSettingsChange(M, src) ==
  LET prev == M.currentSettings
      cur == M.state.settings
      M1 == [M EXCEPT !.currentSettings = cur]
      M2 == IF ~prev["contextualIdentities"] /\ cur["contextualIdentities"]
            THEN cacheCookieStoreIdNames(M1) ELSE M1
      lsOn == /\ Has(cur, "localStorageCleanup") /\ cur["localStorageCleanup"]
              /\ ~(Has(prev, "localStorageCleanup") /\ prev["localStorageCleanup"])
  IN  CleanupLoop(M2, Invocation(prev, src, lsOn), 1)

\* The store's subscribers, called in the order they subscribed.
Notify(M, k, a) ==
  IF k > Len(M.listeners) THEN M
  ELSE Notify(IF M.listeners[k] = "onSettingsChange"
              THEN onSettingsChange(M, a.src)
              ELSE saveToStorage(M),
              k + 1, a)

\* store.dispatch(a) of a plain action: the reducer, then every subscriber.
\* activations counts the settings' turns to true, the one line 348 makes
\* apart.
Dispatch(M, a) ==
  LET old == M.state.settings
      new == Reduce(M.state, a)
      M1 == [M EXCEPT
               !.state = new,
               !.dispatched = TRUE,
               !.activations =
                 [t \in SiteData |->
                    IF Activated(old, new.settings, t) /\ a.src # "migration"
                    THEN @[t] + 1 ELSE @[t]]]
  IN  Notify(M1, 1, a)

\* ------------------------------------------------------------- the state

VARIABLES
  storage,            \* browser.storage.local's key `state`
  storage0,           \* the same when the background page was loaded
  created,            \* `store` is set (line 166)
  creations,          \* calls of createStore
  createdFrom,        \* stateFromStorage, as given to createStore
  state,              \* store.getState()
  dispatched,         \* an action went through the store
  currentSettings,    \* line 40
  listeners,          \* the store's subscribers, in order
  delaySave,          \* line 43
  timers,             \* pending timers of line 47
  coalesced,          \* saveToStorage was called while the timer was pending
  lastWriteCoalesced, \* ... and so it was for the last write
  invs,               \* the suspended invocations of onSettingsChange, a bag
  removes,            \* browsingData.remove calls, per site data type
  activations,        \* turns to true of each <type>Cleanup setting
  rejected,           \* invocations of onSettingsChange that threw
  cacheThunks,        \* cacheCookieStoreIdNames thunks waiting for the browser
  title,              \* the browser action's title
  startupPc,          \* where onStartUp waits
  startupLog,         \* the calls onStartUp made, in order
  grey,               \* the runtime.onStartup handler
  inst,               \* the runtime.onInstalled handler
  userChanges,        \* settings changes made by the settings page so far
  env                 \* what the browser and the user do in this run

vars ==
  <<storage, storage0, created, creations, createdFrom, state,
    dispatched, currentSettings, listeners, delaySave, timers, coalesced,
    lastWriteCoalesced, invs, removes, activations, rejected, cacheThunks,
    title, startupPc, startupLog, grey, inst, userChanges, env>>

\* What a synchronous stretch of code reads and writes.
Mach ==
  [state |-> state, dispatched |-> dispatched,
   currentSettings |-> currentSettings, listeners |-> listeners,
   delaySave |-> delaySave, timers |-> timers, coalesced |-> coalesced,
   invs |-> invs, removes |-> removes, activations |-> activations,
   rejected |-> rejected, cacheThunks |-> cacheThunks,
   startupLog |-> startupLog]

Commit(M) ==
  /\ state' = M.state
  /\ dispatched' = M.dispatched
  /\ currentSettings' = M.currentSettings
  /\ listeners' = M.listeners
  /\ delaySave' = M.delaySave
  /\ timers' = M.timers
  /\ coalesced' = M.coalesced
  /\ invs' = M.invs
  /\ removes' = M.removes
  /\ activations' = M.activations
  /\ rejected' = M.rejected
  /\ cacheThunks' = M.cacheThunks
  /\ startupLog' = M.startupLog

\* No invocation of onSettingsChange is suspended.
Quiet == invs = EmptyBag

\* The place of a call in onStartUp's log, 0 when it was not made.
Pos(what) ==
  IF \E i \in 1..Len(startupLog) : startupLog[i] = what
  THEN CHOOSE i \in 1..Len(startupLog) :
         /\ startupLog[i] = what
         /\ \A j \in 1..(i - 1) : startupLog[j] # what
  ELSE 0

startupVars == <<created, creations, createdFrom, title, startupPc>>
envVars == <<storage0, env>>

\* ------------------------------------------------------- stored states

\* A state written by a version below 3.5.0: no <type>Cleanup setting but the
\* deprecated localstorageCleanup, and the greyCleanLocalstorage option.
OldSettings(ls, am, ci, gcl) ==
  [n \in {BaseNames[i] : i \in 1..Len(BaseNames)} |->
     CASE n = "activeMode" -> am
       [] n = "contextualIdentities" -> ci
       [] n = "contextMenus" -> TRUE
       [] n = "enableGreyListCleanup" -> TRUE
       [] n = "enableNewVersionPopup" -> TRUE]
  @@ ("localstorageCleanup" :> ls)
  @@ ("greyCleanLocalstorage" :> gcl)
  @@ ("whiteCleanLocalstorage" :> FALSE)

\* A state written by this version, after line 135 has run once.
NewSettings(ls, am, eg) ==
  [n \in DOMAIN InitialSettings |->
     CASE n = "activeMode" -> am
       [] n = "enableGreyListCleanup" -> eg
       [] n = "localStorageCleanup" -> ls
       [] OTHER -> InitialSettings[n]]
  @@ ("localstorageCleanup" :> ls)

StoredStates ==
  {[settings |-> OldSettings(ls, am, ci, gcl), cache |-> {},
    exprs |-> IF gcl THEN {"legacy"} ELSE {}] :
     ls \in BOOLEAN, am \in BOOLEAN, ci \in BOOLEAN, gcl \in BOOLEAN}
  \cup
  {[settings |-> NewSettings(ls, am, eg), cache |-> c, exprs |-> {}] :
     ls \in BOOLEAN, am \in BOOLEAN, eg \in BOOLEAN,
     c \in {{}, {"browserDetect", "platformOs"}}}

StorageValues ==
  {Absent, EmptyString, Garbage} \cup {JSONstringify(st) : st \in StoredStates}

NewState(ls, am, eg) ==
  JSONstringify([settings |-> NewSettings(ls, am, eg), cache |-> {}, exprs |-> {}])

OldState(ls) ==
  JSONstringify([settings |-> OldSettings(ls, FALSE, FALSE, FALSE),
                 cache |-> {}, exprs |-> {}])

\* A run's environment: what storage holds when the page is loaded, which of
\* the browser's events (runtime.onStartup, runtime.onInstalled) occur, and
\* which settings the settings page changes, how often.
Scenario(st, events, settable, budget) ==
  [storage |-> st, events |-> events, settable |-> settable, budget |-> budget]

Scenarios ==
  \* every stored state, both events, the settings page closed
  {Scenario(st, {"onStartup", "onInstalled"}, {}, 0) : st \in StorageValues}
  \cup
  \* a browser start while the modes are switched
  {Scenario(NewState(FALSE, am, eg), {"onStartup"},
            {"activeMode", "enableGreyListCleanup"}, MaxUserChanges) :
     am \in BOOLEAN, eg \in BOOLEAN}
  \cup
  \* an install or update while LocalStorage cleanup is switched
  {Scenario(st, {"onInstalled"}, {"localStorageCleanup", "cacheCleanup"},
            MaxUserChanges) :
     st \in {OldState(TRUE), OldState(FALSE), NewState(FALSE, FALSE, TRUE), Absent}}
  \cup
  \* settings changes alone
  {Scenario(NewState(FALSE, FALSE, TRUE), {},
            {"cacheCleanup", "localStorageCleanup", "serviceWorkersCleanup",
             "contextMenus", "contextualIdentities"},
            MaxRaceChanges)}

\* details.previousVersion through convertVersionToNumber.
PreviousVersions == {299, 340, 350}

Reasons == {"install", "update", "browser_update"}

\* ------------------------------------------------------------------ Init

\* The background page is loaded: lines 39-43, 237, 290, and onStartUp()
\* (line 292) up to its first await, line 155.
Init ==
  /\ \E sc \in Scenarios :
       /\ storage = sc.storage
       /\ env = [events |-> sc.events, settable |-> sc.settable,
                 budget |-> sc.budget]
  /\ storage0 = storage
  /\ created = FALSE
  /\ creations = 0
  /\ createdFrom = EmptyObject
  /\ state = InitialState
  /\ dispatched = FALSE
  /\ currentSettings = NoSettings
  /\ listeners = <<>>
  /\ delaySave = FALSE
  /\ timers = 0
  /\ coalesced = FALSE
  /\ lastWriteCoalesced = FALSE
  /\ invs = EmptyBag
  /\ removes = [t \in SiteData |-> 0]
  /\ activations = [t \in SiteData |-> 0]
  /\ rejected = 0
  /\ cacheThunks = 0
  /\ title = "STARTING UP"
  /\ startupPc = "storage"
  /\ startupLog = <<"title STARTING UP">>
  /\ grey = [pc |-> "idle", checked |-> FALSE, restore |-> FALSE,
             cleanups |-> 0, activeAtDispatch |-> TRUE, protectedCalls |-> 0]
  /\ inst = [pc |-> "idle", k |-> 0, pv |-> 0]
  /\ userChanges = 0

\* -------------------------------------------------------------- onStartUp

\* One call onStartUp makes, written to its log.
Called(M, what) == [M EXCEPT !.startupLog = Append(@, what)]

\* Lines 219-226: the listeners of tabs.onUpdated, tabs.onRemoved and
\* cookies.onChanged.
AddListeners(M) == Called(Called(M, "tabs listeners"), "cookies listener")

\* Lines 155-190: storage.local.get() answered.  The store is created and
\* ON_STARTUP dispatched; Firefox (browserDetect()) then asks for the
\* browser's version.
StartupGotStorage ==
  /\ startupPc = "storage"
  /\ \E firefox \in BOOLEAN :
       LET parsed == stateFromStorage(storage)
       IN  IF parsed.obj = "thrown"
           THEN /\ startupPc' = "error"
                /\ UNCHANGED <<created, creations, createdFrom>>
                /\ Commit(Mach)
           ELSE LET M0 == Called([Mach EXCEPT !.state = createStore(parsed)],
                                 "createStore")
                    M1 == Dispatch(M0, Act("ON_STARTUP", "", TRUE, "code"))
                IN  /\ created' = TRUE
                    /\ creations' = creations + 1
                    /\ createdFrom' = parsed
                    /\ IF firefox
                       THEN /\ startupPc' = "browserInfo"
                            /\ Commit(M1)
                       ELSE /\ startupPc' = "platformInfo"
                            /\ Commit(Dispatch(M1, ADD_CACHE("browserDetect")))
  /\ UNCHANGED <<storage, title, grey, inst, userChanges, lastWriteCoalesced,
                 envVars>>

\* Lines 173-193, Firefox: runtime.getBrowserInfo() answered.
StartupGotBrowserInfo ==
  /\ startupPc = "browserInfo"
  /\ startupPc' = "platformInfo"
  /\ Commit(Dispatch(Dispatch(Mach, ADD_CACHE("browserVersion")),
                     ADD_CACHE("browserDetect")))
  /\ UNCHANGED <<storage, title, grey, inst, userChanges, lastWriteCoalesced,
                 envVars, created, creations, createdFrom>>

\* Lines 206-213 with the listeners of lines 219-226 registered first.
StartupSubscribe_listenersFirst(M) ==
  LET M0 == AddListeners(M)
      M1 == Called([M0 EXCEPT !.currentSettings = M0.state.settings,
                              !.listeners = Append(@, "onSettingsChange")],
                   "subscribe onSettingsChange")
      M2 == Called([M1 EXCEPT !.listeners = Append(@, "saveToStorage")],
                   "subscribe saveToStorage")
      M3 == Called(M2, "StoreUser.init")
  IN  validateSettings(Called(M3, "validateSettings"))

\* Lines 206-213: currentSettings, the two subscribers, StoreUser.init and
\* validateSettings.
StartupSubscribe(M) ==
  LET M1 == Called([M EXCEPT !.currentSettings = M.state.settings,
                             !.listeners = Append(@, "onSettingsChange")],
                   "subscribe onSettingsChange")
      M2 == Called([M1 EXCEPT !.listeners = Append(@, "saveToStorage")],
                   "subscribe saveToStorage")
      M3 == Called(M2, "StoreUser.init")
  IN  validateSettings(Called(M3, "validateSettings"))

\* Lines 193-217: runtime.getPlatformInfo() answered; up to setGlobalIcon and
\* checkIfProtected.  Nothing of this file runs between those two awaits, so
\* they are one wait here.
StartupGotPlatformInfo ==
  /\ startupPc = "platformInfo"
  /\ LET M1 == Dispatch(Mach, ADD_CACHE("platformOs"))
         M2 == IF getSetting(M1.state, "contextualIdentities")
               THEN cacheCookieStoreIdNames(M1) ELSE M1
     IN  Commit(StartupSubscribe(M2))
  /\ startupPc' = "checkIfProtected"
  /\ UNCHANGED <<storage, title, grey, inst, userChanges, lastWriteCoalesced,
                 envVars, created, creations, createdFrom>>

\* Lines 219-233: the listeners, the context menus, the title.
StartupReady(M) == Called(AddListeners(M), "title READY")

StartupFinish ==
  /\ startupPc = "checkIfProtected"
  /\ startupPc' = "done"
  /\ Commit(StartupReady(Mach))
  /\ title' = "READY"
  /\ UNCHANGED <<storage, grey, inst, userChanges, lastWriteCoalesced, envVars,
                 created, creations, createdFrom>>

\* ---------------------------------------------------------- the save timer

\* Lines 47-52: the timer fires and writes the store's state of that moment.
SaveTimerFires ==
  /\ timers > 0
  /\ timers' = timers - 1
  /\ delaySave' = FALSE
  /\ storage' = JSONstringify(state)
  /\ lastWriteCoalesced' = coalesced
  /\ coalesced' = FALSE
  /\ UNCHANGED <<state, dispatched, currentSettings, listeners, invs, removes,
                 activations, rejected, cacheThunks, startupLog, grey, inst,
                 userChanges, startupVars, envVars>>

\* ------------------------------------------- onSettingsChange, resumed

\* The invocation goes on behind the await it waited at; behind
\* checkIfProtected it dispatches validateSettings and ends.
Resume(M, inv) ==
  CASE inv.pc = "cleanup" -> CleanupLoop(M, inv, inv.i + 1)
    [] inv.pc = "alarm" -> AfterAlarm(M, inv)
    [] inv.pc = "icon" -> AfterIcon(M, inv)
    [] inv.pc = "menu" -> AfterMenu(M, inv)
    [] inv.pc = "protected" -> validateSettings(M)

ResumeSettingsChange ==
  /\ \E inv \in BagToSet(invs) :
       Commit(Resume([Mach EXCEPT !.invs = @ (-) SetToBag({inv})], inv))
  /\ UNCHANGED <<storage, grey, inst, userChanges, lastWriteCoalesced,
                 startupVars, envVars>>

\* ------------------------------------------------------- the environment

\* cacheCookieStoreIdNames got the containers and dispatches ADD_CACHE.
CacheThunkDone ==
  /\ cacheThunks > 0
  /\ Commit(Dispatch([Mach EXCEPT !.cacheThunks = @ - 1], ADD_CACHE("containers")))
  /\ UNCHANGED <<storage, grey, inst, userChanges, lastWriteCoalesced,
                 startupVars, envVars>>

\* The settings page dispatches UPDATE_SETTING for one setting.  It has the
\* store from StoreUser, that is once line 211 has run.
UserUpdateSetting ==
  /\ Pos("StoreUser.init") > 0
  /\ userChanges < env.budget
  /\ userChanges' = userChanges + 1
  /\ \E n \in env.settable \cap DOMAIN state.settings :
       Commit(Dispatch(Mach, Act("UPDATE_SETTING", n, ~state.settings[n], "user")))
  /\ UNCHANGED <<storage, grey, inst, lastWriteCoalesced, startupVars, envVars>>

\* ------------------------------------------------------ runtime.onStartup

\* greyCleanup without its own look at activeMode.
greyCleanup_unchecked(g, st) ==
  [g EXCEPT !.cleanups = @ + 1,
            !.activeAtDispatch = getSetting(st, "activeMode")]

\* Lines 424-442: cookieCleanup({greyCleanup: true, ...}) is dispatched if
\* activeMode is set now.
greyCleanup(g, st) ==
  IF getSetting(st, "activeMode")
  THEN [g EXCEPT !.cleanups = @ + 1,
                 !.activeAtDispatch = getSetting(st, "activeMode")]
  ELSE g

\* Line 333: checkIfProtected(store.getState()) is called; the handler ends
\* when it is done.
GreyCheckIfProtected(g) ==
  [g EXCEPT !.pc = "checkIfProtected", !.protectedCalls = @ + 1]

\* Lines 301-306 and 322-333: the browser started, the listener was called and
\* awaitStore found the store.
GreyAwaitStore ==
  /\ "onStartup" \in env.events
  /\ grey.pc = "idle"
  /\ created
  /\ grey' = IF getSetting(state, "activeMode")
                /\ getSetting(state, "enableGreyListCleanup")
             THEN [grey EXCEPT !.pc = "tabs.query", !.checked = TRUE]
             ELSE GreyCheckIfProtected(grey)
  /\ UNCHANGED <<storage, inst, userChanges, lastWriteCoalesced, startupVars,
                 envVars>>
  /\ Commit(Mach)

\* Lines 306-321 and 333: the tabs are known.
GreyTabsQueried ==
  /\ grey.pc = "tabs.query"
  /\ \E isFFSessionRestore \in BOOLEAN :
       grey' = GreyCheckIfProtected(
                 IF ~isFFSessionRestore
                 THEN greyCleanup([grey EXCEPT !.restore = FALSE], state)
                 ELSE [grey EXCEPT !.restore = TRUE])
  /\ UNCHANGED <<storage, inst, userChanges, lastWriteCoalesced, startupVars,
                 envVars>>
  /\ Commit(Mach)

\* ---------------------------------------------------- runtime.onInstalled

\* Lines 404-411: the counter of versions below 3.0.0, the options page.
InstalledTail(M, pv) ==
  LET M1 == IF pv < 300
            THEN Dispatch(M, Act("RESET_COOKIE_DELETED_COUNTER", "", TRUE, "code"))
            ELSE M
  IN  [M |-> M1, k |-> 0,
       pc |-> IF getSetting(M1.state, "enableNewVersionPopup")
              THEN "openOptionsPage" ELSE "done"]

ListTypes == <<"grey", "white">>

RECURSIVE InstalledLists(_, _, _)

\* Lines 374-402, from the k-th list type on: the `_Default` expression of a
\* list type whose CleanLocalstorage setting was set; with containers on, the
\* containers are asked for first.
InstalledLists(M, pv, k) ==
  IF k > Len(ListTypes) THEN InstalledTail(M, pv)
  ELSE IF ~getSetting(M.state, ListTypes[k] \o "CleanLocalstorage")
  THEN InstalledLists(M, pv, k + 1)
  ELSE IF getSetting(M.state, "contextualIdentities")
  THEN [M |-> M, k |-> k, pc |-> "contextualIdentities.query"]
  ELSE InstalledLists(
         Dispatch(M, Act("ADD_EXPRESSION", "_Default:" \o ListTypes[k], TRUE, "code")),
         pv, k + 1)

\* Lines 347-356 copying whatever the deprecated setting holds, as the code
\* does: the dispatch of line 348.
MigrateSetting(M) ==
  IF Has(M.state.settings, "localstorageCleanup")
  THEN Dispatch(M, Act("UPDATE_SETTING", "localStorageCleanup",
                       M.state.settings["localstorageCleanup"], "migration"))
  ELSE M

\* Lines 358-371: the expressions with cleanLocalStorage and no cleanSiteData.
MigrateExpressions(M) ==
  IF "legacy" \in M.state.exprs
  THEN Dispatch(M, Act("UPDATE_EXPRESSION", "legacy", TRUE, "code"))
  ELSE M

\* Lines 342-403: case 'update'.
InstalledUpdate(M, pv) ==
  LET M1 == validateSettings(M)
  IN  IF pv < 350
      THEN InstalledLists(MigrateExpressions(MigrateSetting(M1)), pv, 1)
      ELSE InstalledTail(M1, pv)

\* What the handler keeps while it waits: the place, and at the containers'
\* query the version and the list type.
InstalledAt(r, pv) ==
  [pc |-> r.pc, k |-> r.k,
   pv |-> IF r.pc = "contextualIdentities.query" THEN pv ELSE 0]

\* Lines 335-415: the extension was installed or updated, the listener was
\* called, awaitStore found the store and checkIfProtected is done (nothing
\* of this file runs between those awaits); the switch, up to its next await.
InstalledSwitch ==
  /\ "onInstalled" \in env.events
  /\ inst.pc = "idle"
  /\ created
  /\ \E reason \in Reasons, pv \in PreviousVersions :
       LET r == CASE reason = "install" ->
                       [M |-> Mach, k |-> 0, pc |-> "openOptionsPage"]
                  [] reason = "update" -> InstalledUpdate(Mach, pv)
                  [] OTHER -> [M |-> Mach, k |-> 0, pc |-> "done"]
       IN  /\ Commit(r.M)
           /\ inst' = InstalledAt(r, pv)
  /\ UNCHANGED <<storage, grey, userChanges, lastWriteCoalesced, startupVars,
                 envVars>>

\* Lines 383-411: the containers are known; the expression is added and the
\* loop goes on.
InstalledContainersQueried ==
  /\ inst.pc = "contextualIdentities.query"
  /\ LET r == InstalledLists(
                Dispatch(Mach, Act("ADD_EXPRESSION",
                                   "_Default:" \o ListTypes[inst.k], TRUE, "code")),
                inst.pv, inst.k + 1)
     IN  /\ Commit(r.M)
         /\ inst' = InstalledAt(r, inst.pv)
  /\ UNCHANGED <<storage, grey, userChanges, lastWriteCoalesced, startupVars,
                 envVars>>

\* ------------------------------------------------------------------ Spec

Next ==
  \/ StartupGotStorage
  \/ StartupGotBrowserInfo
  \/ StartupGotPlatformInfo
  \/ StartupFinish
  \/ SaveTimerFires
  \/ ResumeSettingsChange
  \/ CacheThunkDone
  \/ UserUpdateSetting
  \/ GreyAwaitStore
  \/ GreyTabsQueried
  \/ InstalledSwitch
  \/ InstalledContainersQueried

Spec == Init /\ [][Next]_vars

\* ------------------------------------------------------------ properties

\* C1: once onStartUp is through, something was dispatched and no save timer
\* is pending, storage holds the JSON of the store's state.
C1_EveryChangePersisted ==
  (startupPc = "done" /\ dispatched /\ timers = 0)
    => storage = JSONstringify(state)

\* C2: the store is created once, from the parsed stored state or, when the
\* key is absent, empty or no JSON, from {}; onStartUp then never ends in an
\* error: ON_STARTUP is dispatched and, at its end, the subscribers and the
\* listeners are installed and the title is READY.
C2_StoreCreatedOnce ==
  /\ creations <= 1
  /\ created <=> creations = 1
  /\ startupPc \in {"storage", "browserInfo", "platformInfo",
                    "checkIfProtected", "done"}
  /\ startupPc = "storage" <=> ~created
  /\ created =>
       /\ createdFrom = IF storage0.kind = "json"
                        THEN ParsedObject(storage0.text) ELSE EmptyObject
       /\ dispatched
  /\ startupPc = "done" =>
       /\ title = "READY"
       /\ listeners = <<"onSettingsChange", "saveToStorage">>
       /\ Pos("tabs listeners") > 0
       /\ Pos("cookies listener") > 0

\* C2's case: the stored text was no JSON and onStartUp reached READY.
C2_Witness ==
  /\ storage0 = Garbage
  /\ startupPc = "done"
  /\ title = "READY"
  /\ createdFrom = EmptyObject

\* C3: the tab and cookie listeners are registered after the store is
\* created, both subscribers are subscribed, StoreUser.init is called and
\* validateSettings is dispatched; the title is READY only after the
\* listeners are registered and STARTING UP until then.
C3_StartupOrder ==
  /\ \A l \in {"tabs listeners", "cookies listener"} :
       Pos(l) > 0 =>
         \A e \in {"createStore", "subscribe onSettingsChange",
                   "subscribe saveToStorage", "StoreUser.init",
                   "validateSettings"} :
           Pos(e) > 0 /\ Pos(e) < Pos(l)
  /\ Pos("title READY") > 0 =>
       \A l \in {"tabs listeners", "cookies listener"} :
         Pos(l) > 0 /\ Pos(l) < Pos("title READY")
  /\ title = IF Pos("title READY") > 0 THEN "READY" ELSE "STARTING UP"
  /\ Pos("subscribe onSettingsChange") > 0
       <=> listeners = <<"onSettingsChange", "saveToStorage">>

\* C3's case: onStartUp is through, with the listeners and the title.
C3_Witness ==
  /\ Pos("title READY") = Len(startupLog)
  /\ Pos("tabs listeners") > Pos("validateSettings")
  /\ title = "READY"

\* C4: at most one save timer is pending, delaySave tells whether one is, and
\* the write a firing timer makes is the store's state of that moment.
C4_Debounce ==
  /\ [](timers <= 1 /\ (delaySave <=> timers = 1))
  /\ [][timers' < timers => storage' = JSONstringify(state')]_vars

\* C4's case: saveToStorage was called while the timer was pending, the timer
\* has fired and storage holds the state.
C4_Witness ==
  /\ lastWriteCoalesced
  /\ timers = 0
  /\ storage = JSONstringify(state)

\* C5: browsingData.remove is called once for every turn of a <type>Cleanup
\* setting to true (line 348's apart): never more often, and as often once no
\* invocation of onSettingsChange is suspended.
C5_ExactlyOneRemove ==
  \A t \in SiteData :
    /\ removes[t] <= activations[t]
    /\ Quiet => removes[t] = activations[t]

\* C6: the runtime.onStartup handler dispatches cookieCleanup at most once,
\* and only with activeMode set at that moment, after it found activeMode
\* and enableGreyListCleanup set and no about:sessionrestore tab; it ends by
\* calling checkIfProtected, once.
C6_GreyCleanup ==
  /\ grey.cleanups <= 1
  /\ grey.cleanups = 1 =>
       grey.activeAtDispatch /\ grey.checked /\ ~grey.restore
  /\ grey.pc = "tabs.query" => grey.checked /\ grey.cleanups = 0
  /\ grey.pc = "checkIfProtected" <=> grey.protectedCalls = 1
  /\ grey.protectedCalls <= 1

\* C6's case: the handler has dispatched cookieCleanup and called
\* checkIfProtected, after the settings page changed a setting.
C6_Witness ==
  /\ grey.cleanups = 1
  /\ grey.pc = "checkIfProtected"
  /\ userChanges > 0

\* C7: no invocation of onSettingsChange ends in an exception.
C7_RunsToCompletion == rejected = 0

\* C8: the invocation called by line 348's dispatch, which turned
\* localStorageCleanup on, calls no remove for LocalStorage; one that sees
\* localStorageCleanup go from false to true with the deprecated setting
\* absent or false has called it.
C8_Migration ==
  \A inv \in BagToSet(invs) :
    /\ (inv.src = "migration" /\ inv.lsOn) => ~inv.issuedLS
    /\ (/\ inv.lsOn
        /\ Has(inv.prev, "localStorageCleanup")
        /\ ~(Has(inv.prev, "localstorageCleanup") /\ inv.prev["localstorageCleanup"]))
       => inv.issuedLS

\* C8's case: line 348 has turned localStorageCleanup on, its invocation waits
\* and no LocalStorage was removed.
C8_Witness ==
  /\ \E inv \in BagToSet(invs) :
       inv.src = "migration" /\ inv.lsOn /\ inv.prev["localstorageCleanup"]
  /\ removes["LocalStorage"] = 0

\* C9: once no invocation of onSettingsChange is suspended, the deprecated
\* setting equals localStorageCleanup.
C9_MirrorEqual ==
  (/\ Quiet
   /\ listeners # <<>>
   /\ Has(state.settings, "localStorageCleanup")
   /\ Has(state.settings, "localstorageCleanup"))
    => state.settings["localstorageCleanup"] = state.settings["localStorageCleanup"]

====
